---- MODULE Spec2Model ----
(***************************************************************************)
(* Model of github.com/artyom/twist (twist.go): the retrying request       *)
(* engine doRequestWithRetries, the page fetchers and the two paginators.  *)
(*                                                                         *)
(* The specifications share the variables:                                 *)
(*   Spec          one call of doRequestWithRetries, step by step          *)
(*   SpecThreads   a ThreadsPaginator driven by Next/Page calls            *)
(*   SpecComments  a CommentsPaginator driven by Next/Page calls           *)
(*   SpecCommentsAny, SpecFetch, SpecFetchThreads, SpecClient and          *)
(*   SpecMentions take a server that may answer anything, one fetcher, the *)
(*   whole client and clearMentions of dump-twist-thread.                  *)
(***************************************************************************)
EXTENDS Integers, Sequences, FiniteSets, TLC

VARIABLES
    \* ---- one call of doRequestWithRetries
    caller,      \* the function that built the request
    reqBody,     \* req.Body: [kind, pos]
    ctxDone,     \* req.Context() is cancelled
    pc,          \* position of the call
    n,           \* the loop counter
    ticker,      \* "nil", "armed" (no tick buffered) or "ticked" (a tick is in ticker.C)
    lastError,   \* lastError
    result,      \* what the call returned
    hist,        \* how every call of the client ended, in order: [kind, status]
    lastResp,    \* the last response received: [status, ct]
    sent,        \* requests put on the wire
    waits,       \* waits on the tick that completed
    rewinds,     \* successful rewinds of the request body
    respOpen,    \* response bodies received and not closed
    cancelSeen,  \* where the cancellation was observed
    closes,      \* for every response received, in order, the Close calls on its body
    fetcher,     \* the fetcher that called: "running", or how it returned
    \* ---- paginators
    tp,          \* ThreadsPaginator: [channelID, afterID, done]
    cp,          \* CommentsPaginator: [threadID, nextIndex, done, nextSinceTs]
    srv,         \* what the server holds
    out,         \* concatenation of the pages returned so far
    okPages,     \* Page calls that succeeded
    errPages,    \* Page calls that failed
    fetches,     \* requests handed to doRequestWithRetries by the fetchers
    lastReq,     \* parameters of the last request built by a fetcher
    lastPage,    \* outcome of the last Page or Channels call: [status, err, len]
    lastNext,    \* value returned by the last Next call
    lastCall,    \* the method called last and the id it was called on
    shortSeen,   \* the paginators that had a Page call succeed with a short page
    cp0,         \* the comments paginator as it was constructed
    built,       \* the constructor that made it and the time it was given
    \* ---- dump-twist-thread
    text,        \* a message text, as a sequence of characters
    cleared      \* what clearMentions returned for it: [called, got]

engineVars == <<caller, reqBody, ctxDone, pc, n, ticker, lastError, result, hist,
                lastResp, sent, waits, rewinds, respOpen, cancelSeen, closes, fetcher>>
fetcherVars == <<closes, fetcher>>
pagerVars == <<tp, cp, srv, out, okPages, errPages, fetches, lastReq, lastPage, lastNext,
               lastCall, shortSeen, cp0, built>>
vars == <<caller, reqBody, ctxDone, pc, n, ticker, lastError, result, hist,
          lastResp, sent, waits, rewinds, respOpen, cancelSeen, closes, fetcher,
          tp, cp, srv, out, okPages, errPages, fetches, lastReq, lastPage, lastNext,
          lastCall, shortSeen, cp0, built, text, cleared>>
dumpVars == <<text, cleared>>

(***************************************************************************)
(* Program constants                                                       *)
(***************************************************************************)
maxRetries == 10
maxThreadsPerPage == 100
maxCommentsPerPage == 500
StatusOK == 200
StatusTooManyRequests == 429
StatusInternalServerError == 500
jsonContentType == "application/json"

(***************************************************************************)
(* The retry engine: doRequestWithRetries                                  *)
(***************************************************************************)

\* Statuses and content types the server answers with. 429 and 500 are
\* retryable, 200 is the success status, 404 and 499 are other statuses.
Statuses == {200, 404, 429, 499, 500}
ContentTypes == {jsonContentType, "application/json; charset=utf-8", "text/html"}

NoErr == [kind |-> "nil", status |-> 0, ct |-> "", attempt |-> 0]
StatusErr(s, k) == [kind |-> "status", status |-> s, ct |-> "", attempt |-> k]
ContentTypeErr(c, k) == [kind |-> "contentType", status |-> StatusOK, ct |-> c, attempt |-> k]
\* errors returned by http.DefaultClient.Do: a transport failure, or the
\* context's error wrapped by the client
NetErr(k) == [kind |-> "net", status |-> 0, ct |-> "", attempt |-> k]
DoCtxErr(k) == [kind |-> "ctx", status |-> 0, ct |-> "", attempt |-> k]

\* entries of hist
GotResponse(status) == [kind |-> "resp", status |-> status]
GotNetErr == [kind |-> "net", status |-> 0]
GotCtxErr == [kind |-> "ctx", status |-> 0]
NoResp == [status |-> 0, ct |-> ""]

Pending == [kind |-> "pending", cause |-> NoErr]
Returned(kind, cause) == [kind |-> kind, cause |-> cause]

\* http.NewRequestWithContext stores a body that is not an io.ReadCloser
\* wrapped in io.NopCloser; the wrapper has Read and Close only, so the
\* *strings.Reader of getChannelThreadsPage is no io.Seeker once in req.Body.
Callers == {"Workspaces", "Channels", "getChannelThreadsPage",
            "getThreadCommentsPage", "getNewThreadCommentsPage", "direct"}
BodyKinds == {"nil", "seeker", "plain"}
NewRequestBody(c) ==
    IF c = "getChannelThreadsPage" THEN {"plain"}
    ELSE IF c = "direct" THEN BodyKinds
    ELSE {"nil"}

\* mutant: every non-nil body is taken for rewindable
IsSeekerAnyBody(b) == b.kind # "nil"
IsSeeker(b) == b.kind = "seeker"

\* mutants: the loop stops one iteration early, one iteration late
LoopBoundOneLess(k) == k < maxRetries - 1
LoopBoundOneMore(k) == k <= maxRetries
\* the condition of the for loop
LoopBound(k) == k < maxRetries

\* mutant: a status outside 200, 429, 5xx is retried as well
ClassifyRetryAll(status, ct, k) ==
    IF status = StatusOK
    THEN IF ct # jsonContentType
         THEN [ok |-> FALSE, tryAgain |-> FALSE, err |-> ContentTypeErr(ct, k)]
         ELSE [ok |-> TRUE, tryAgain |-> FALSE, err |-> NoErr]
    ELSE [ok |-> FALSE, tryAgain |-> TRUE, err |-> StatusErr(status, k)]
\* the switch on resp.StatusCode and the Content-Type test of attempt:
\* [ok, tryAgain, err]
Classify(status, ct, k) ==
    IF status = StatusOK
    THEN IF ct # jsonContentType
         THEN [ok |-> FALSE, tryAgain |-> FALSE, err |-> ContentTypeErr(ct, k)]
         ELSE [ok |-> TRUE, tryAgain |-> FALSE, err |-> NoErr]
    ELSE IF status = StatusTooManyRequests \/ status >= StatusInternalServerError
         THEN [ok |-> FALSE, tryAgain |-> TRUE, err |-> StatusErr(status, k)]
         ELSE [ok |-> FALSE, tryAgain |-> FALSE, err |-> StatusErr(status, k)]

\* mutant: an error of the client asks for another try
DoFailedTryAgain(err) == [ok |-> FALSE, tryAgain |-> TRUE, err |-> err]
\* what attempt returns when http.DefaultClient.Do fails
DoFailed(err) == [ok |-> FALSE, tryAgain |-> FALSE, err |-> err]

\* requests built by the fetchers: the API parameters that vary
NoReq == [api |-> "none", id |-> 0, limit |-> 0, after_id |-> 0,
          from_obj_index |-> 0, to_obj_index |-> 0, newer_than_ts |-> 0]
NoCall == [method |-> "none", id |-> 0]
Called(method, id) == [method |-> method, id |-> id]
NoPage == [status |-> "none", err |-> "", len |-> 0]
NoServer == [threads |-> <<>>, comments |-> <<>>, n |-> 0, missing |-> {}, honest |-> TRUE]

\* no text has been handed to clearMentions
NotCleared == [called |-> FALSE, got |-> <<>>]
DumpIdle == text = <<>> /\ cleared = NotCleared

\* the zero values of ThreadsPaginator and CommentsPaginator
NewThreadsPaginator(channelID) == [channelID |-> channelID, afterID |-> 0, done |-> FALSE]
ExactCommentsPaginator(threadID) ==
    [threadID |-> threadID, nextIndex |-> 0, done |-> FALSE, nextSinceTs |-> 0]
\* the call that made the paginator: Client.CommentsPaginator(threadID), or
\* Client.NewCommentsPaginator(threadID, since) with since.Unix() = sinceUnix
Made(method, sinceUnix) == [by |-> method, since |-> sinceUnix]

PagerIdle ==
    /\ tp = NewThreadsPaginator(0)
    /\ cp = ExactCommentsPaginator(0)
    /\ srv = NoServer
    /\ out = <<>>
    /\ okPages = 0
    /\ errPages = 0
    /\ fetches = 0
    /\ lastReq = NoReq
    /\ lastPage = NoPage
    /\ lastNext = "none"
    /\ lastCall = NoCall
    /\ shortSeen = {}
    /\ cp0 = cp
    /\ built = Made("CommentsPaginator", 0)
    /\ DumpIdle

Init ==
    /\ caller \in Callers
    /\ \E k \in NewRequestBody(caller) : reqBody = [kind |-> k, pos |-> 0]
    /\ ctxDone = FALSE
    /\ pc = "loop"
    /\ n = 0
    /\ ticker = "nil"
    /\ lastError = NoErr
    /\ result = Pending
    /\ hist = <<>>
    /\ lastResp = NoResp
    /\ sent = 0
    /\ waits = 0
    /\ rewinds = 0
    /\ respOpen = 0
    /\ cancelSeen = "no"
    /\ closes = <<>>
    /\ fetcher = "running"
    /\ PagerIdle

Return(kind, cause) ==
    /\ pc' = "returned"
    /\ result' = Returned(kind, cause)

\* mutant: the first attempt waits for a tick as well
WaitsForTickAlways(k) == TRUE
\* the loop waits for the ticker before every attempt but the first
WaitsForTick(k) == k # 0

\* the head of the loop: the bound, the rewind of the body, the ticker
LoopTop ==
    /\ pc = "loop"
    /\ IF ~LoopBound(n)
       THEN /\ Return("givingUp", lastError)
            /\ UNCHANGED <<reqBody, ticker, rewinds>>
       ELSE IF n # 0 /\ reqBody.kind # "nil" /\ ~IsSeeker(reqBody)
       THEN /\ Return("cannotRewind", lastError)
            /\ UNCHANGED <<reqBody, ticker, rewinds>>
       ELSE IF n # 0 /\ reqBody.kind # "nil"
       THEN \E seekOK \in BOOLEAN :
              IF seekOK
              THEN /\ reqBody' = [reqBody EXCEPT !.pos = 0]
                   /\ rewinds' = rewinds + 1
                   /\ ticker' = IF ticker = "nil" THEN "armed" ELSE ticker
                   /\ pc' = "wait"
                   /\ UNCHANGED result
              ELSE /\ Return("seekFailed", NoErr)
                   /\ UNCHANGED <<reqBody, ticker, rewinds>>
       ELSE /\ ticker' = IF WaitsForTick(n) /\ ticker = "nil" THEN "armed" ELSE ticker
            /\ pc' = IF WaitsForTick(n) THEN "wait" ELSE "do"
            /\ UNCHANGED <<reqBody, rewinds, result>>
    /\ UNCHANGED <<caller, ctxDone, n, lastError, hist, lastResp, sent, waits, respOpen, cancelSeen>>
    /\ UNCHANGED <<pagerVars, dumpVars, fetcherVars>>

\* mutant: the Done case of the select lacks its return
SelectDoneFallsThrough ==
    /\ pc = "wait"
    /\ \/ /\ ticker = "ticked"
          /\ ticker' = "armed"
          /\ waits' = waits + 1
          /\ UNCHANGED cancelSeen
       \/ /\ ctxDone
          /\ cancelSeen' = "wait"
          /\ UNCHANGED <<ticker, waits>>
    /\ pc' = "do"
    /\ UNCHANGED <<caller, reqBody, ctxDone, n, lastError, result, hist, lastResp, sent,
                   rewinds, respOpen>>
    /\ UNCHANGED <<pagerVars, dumpVars, fetcherVars>>
\* the select on ticker.C and req.Context().Done()
Select ==
    /\ pc = "wait"
    /\ \/ /\ ticker = "ticked"
          /\ ticker' = "armed"
          /\ waits' = waits + 1
          /\ pc' = "do"
          /\ UNCHANGED <<result, cancelSeen>>
       \/ /\ ctxDone
          /\ Return("ctx", NoErr)
          /\ cancelSeen' = "wait"
          /\ UNCHANGED <<ticker, waits>>
    /\ UNCHANGED <<caller, reqBody, ctxDone, n, lastError, hist, lastResp, sent, rewinds, respOpen>>
    /\ UNCHANGED <<pagerVars, dumpVars, fetcherVars>>

\* what the loop does with the values attempt returned
AfterAttempt(r) ==
    IF r.ok
    THEN /\ Return("body", NoErr)
         /\ UNCHANGED <<n, lastError>>
    ELSE /\ lastError' = r.err
         /\ IF r.tryAgain
            THEN /\ n' = n + 1
                 /\ pc' = "loop"
                 /\ UNCHANGED result
            ELSE /\ Return("err", r.err)
                 /\ UNCHANGED n

\* attempt calls http.DefaultClient.Do: with the context already cancelled
\* the client returns its error without sending; otherwise the request,
\* body included, goes out
Do ==
    /\ pc = "do"
    /\ IF ctxDone
       THEN /\ AfterAttempt(DoFailed(DoCtxErr(n + 1)))
            /\ cancelSeen' = "do"
            /\ UNCHANGED <<reqBody, sent>>
       ELSE /\ pc' = "inflight"
            /\ sent' = sent + 1
            /\ reqBody' = IF reqBody.kind = "nil" THEN reqBody ELSE [reqBody EXCEPT !.pos = 1]
            /\ UNCHANGED <<n, lastError, result, cancelSeen>>
    /\ UNCHANGED <<caller, ctxDone, ticker, hist, lastResp, waits, rewinds, respOpen>>
    /\ UNCHANGED <<pagerVars, dumpVars, fetcherVars>>

\* mutant: the deferred function closes the body it hands out as well
DeferredClosesAlways(defuseBodyClose) == 1
\* the Close calls of the function attempt defers: none once defused
DeferredCloses(defuseBodyClose) == IF defuseBodyClose THEN 0 ELSE 1

\* the request in flight ends with a response
Response ==
    /\ pc = "inflight"
    /\ \E status \in Statuses, ct \in ContentTypes :
         LET r == Classify(status, ct, n + 1) IN
           /\ hist' = Append(hist, GotResponse(status))
           /\ lastResp' = [status |-> status, ct |-> ct]
           /\ AfterAttempt(r)
           \* the deferred resp.Body.Close() runs unless defused
           /\ respOpen' = IF r.ok THEN respOpen + 1 ELSE respOpen
           /\ closes' = Append(closes, DeferredCloses(r.ok))
    /\ UNCHANGED <<caller, reqBody, ctxDone, ticker, sent, waits, rewinds, cancelSeen, fetcher>>
    /\ UNCHANGED <<pagerVars, dumpVars>>

\* the request in flight ends with an error of the client: a transport
\* failure, or the cancellation of the context
DoError ==
    /\ pc = "inflight"
    /\ \/ /\ AfterAttempt(DoFailed(NetErr(n + 1)))
          /\ hist' = Append(hist, GotNetErr)
          /\ UNCHANGED cancelSeen
       \/ /\ ctxDone
          /\ AfterAttempt(DoFailed(DoCtxErr(n + 1)))
          /\ hist' = Append(hist, GotCtxErr)
          /\ cancelSeen' = "inflight"
    /\ UNCHANGED <<caller, reqBody, ctxDone, ticker, lastResp, sent, waits, rewinds, respOpen>>
    /\ UNCHANGED <<pagerVars, dumpVars, fetcherVars>>

\* the caller cancels the context
Cancel ==
    /\ pc # "returned"
    /\ ~ctxDone
    /\ ctxDone' = TRUE
    /\ UNCHANGED <<caller, reqBody, pc, n, ticker, lastError, result, hist,
                   lastResp, sent, waits, rewinds, respOpen, cancelSeen>>
    /\ UNCHANGED <<pagerVars, dumpVars, fetcherVars>>

\* 500ms pass: the ticker puts a tick in its channel (buffer of one)
Tick ==
    /\ pc # "returned"
    /\ ticker = "armed"
    /\ ticker' = "ticked"
    /\ UNCHANGED <<caller, reqBody, ctxDone, pc, n, lastError, result, hist,
                   lastResp, sent, waits, rewinds, respOpen, cancelSeen>>
    /\ UNCHANGED <<pagerVars, dumpVars, fetcherVars>>

\* the fetchers that check the order of the records they decoded
OrderChecked == {"getChannelThreadsPage", "getThreadCommentsPage"}
\* how a fetcher ends once it holds a body: decoded, not decodable, or
\* decoded and refused for the order of its records
BodyOutcomes(c) ==
    {"ok", "decode"} \cup (IF c \in OrderChecked THEN {"ordering"} ELSE {})

\* the rest of the fetcher, after doRequestWithRetries returned to it: an
\* error is handed on; a body is decoded, and the deferred body.Close()
\* runs on every way out
FetcherReturn ==
    /\ pc = "returned"
    /\ fetcher = "running"
    /\ caller # "direct"
    /\ IF result.kind = "body"
       THEN /\ fetcher' \in BodyOutcomes(caller)
            /\ closes' = [closes EXCEPT ![Len(closes)] = @ + 1]
            /\ respOpen' = respOpen - 1
       ELSE /\ fetcher' = "error"
            /\ UNCHANGED <<closes, respOpen>>
    /\ UNCHANGED <<caller, reqBody, ctxDone, pc, n, ticker, lastError, result, hist,
                   lastResp, sent, waits, rewinds, cancelSeen>>
    /\ UNCHANGED <<pagerVars, dumpVars>>

Next ==
    \/ LoopTop
    \/ Select
    \/ Do
    \/ Response
    \/ DoError
    \/ Cancel
    \/ Tick
    \/ FetcherReturn

Spec == Init /\ [][Next]_vars

(***************************************************************************)
(* The fetchers and the paginators                                         *)
(***************************************************************************)

\* bounds of the paginator specifications
MaxFullPages == 2
MaxSlack == 2
MaxGapSlack == 0
MaxErrPages == 1
\* successful pages read from a server that is not bound to the contract
MaxAnyPages == 2
\* requests after which Channels is not called again
MaxFetches == 1

\* the engine is not running while a paginator specification is explored:
\* a fetcher's call of doRequestWithRetries is one step, its result an input
EngineIdle ==
    /\ caller = "none"
    /\ reqBody = [kind |-> "nil", pos |-> 0]
    /\ ctxDone = FALSE
    /\ pc = "idle"
    /\ n = 0
    /\ ticker = "nil"
    /\ lastError = NoErr
    /\ result = Pending
    /\ hist = <<>>
    /\ lastResp = NoResp
    /\ sent = 0
    /\ waits = 0
    /\ rewinds = 0
    /\ respOpen = 0
    /\ cancelSeen = "no"
    /\ closes = <<>>
    /\ fetcher = "idle"

\* how a fetch can fail after the request is built: the errors
\* doRequestWithRetries returns to that fetcher, and a body that does not
\* decode. A threads request has a body that cannot be rewound, the others
\* have none.
FetchFailures(c) ==
    IF c = "getChannelThreadsPage"
    THEN {"err", "cannotRewind", "decode"}
    ELSE {"err", "givingUp", "ctx", "decode"}

Thread(id) == [Id |-> id]
Comment(i, ts) == [OrderIndex |-> i, TsPosted |-> ts]

\* sort.SliceIsSorted: no element is less than the one before it
SliceIsSorted(key) == \A i \in 2..Len(key) : ~(key[i] < key[i - 1])

Failed(err) == [err |-> err, list |-> <<>>]
Fetched(list) == [err |-> "", list |-> list]

\* the naturals within slack of a multiple of the page size, up to
\* MaxFullPages full pages
Near(pageSize, slack) ==
    {c \in {q * pageSize + d : q \in 0..MaxFullPages, d \in (0 - slack)..slack} : c >= 0}
\* numbers of records the server may hold
Counts(pageSize) == Near(pageSize, MaxSlack)

(***************************************************************************)
(* Threads                                                                 *)
(***************************************************************************)

\* mutant: the cursor is sent as it is, 0 included
ThreadsRequestAsIs(channelID, afterID) ==
    [NoReq EXCEPT !.api = "threads/get", !.id = channelID,
                  !.limit = maxThreadsPerPage, !.after_id = afterID]
ThreadsRequest(channelID, afterID) ==
    [NoReq EXCEPT !.api = "threads/get", !.id = channelID,
                  !.limit = maxThreadsPerPage,
                  !.after_id = IF afterID = 0 THEN 0 - 1 ELSE afterID]

\* the server: the threads of the channel with id greater than after_id,
\* ascending, at most limit of them
ServeThreads(req) ==
    LET after == req.after_id
        Newer(t) == t.Id > after
        all == SelectSeq(srv.threads, Newer)
    IN  SubSeq(all, 1, IF Len(all) < req.limit THEN Len(all) ELSE req.limit)

\* getChannelThreadsPage, after the request is built and answered
getChannelThreadsPage(channelID, failure, body) ==
    IF channelID = 0 THEN Failed("invalid channel ID")
    ELSE IF failure # "none" THEN Failed(failure)
    ELSE IF ~SliceIsSorted([i \in 1..Len(body) |-> body[i].Id])
         THEN Failed("not sorted")
         ELSE Fetched(body)

\* mutant: the cursor is taken from the first record of the page
NextAfterIDFirst(afterID, list) == IF Len(list) # 0 THEN list[1].Id ELSE afterID
\* the cursor after a page: the id of its last record, if it has one
NextAfterID(afterID, list) == IF Len(list) # 0 THEN list[Len(list)].Id ELSE afterID

\* mutant: a full page ends the pagination too
ThreadsDoneOnFull(len) == len <= maxThreadsPerPage
\* mutant: only an empty page ends the pagination
ThreadsDoneOnEmpty(len) == len = 0
\* cp.done = len(threads) < maxThreadsPerPage
ThreadsDone(len) == len < maxThreadsPerPage

\* mutant: Next reports more pages whatever the paginator's state
NextValueAlways(done) == "true"
\* Next: return !cp.done
NextValue(done) == IF ~done THEN "true" ELSE "false"

ThreadsNext ==
    /\ lastNext' = NextValue(tp.done)
    /\ lastCall' = Called("ThreadsPaginator.Next", tp.channelID)
    /\ UNCHANGED <<tp, cp, srv, out, okPages, errPages, fetches, lastReq, lastPage, shortSeen,
                   cp0, built>>
    /\ UNCHANGED <<engineVars, dumpVars>>

PageError(err) ==
    /\ errPages < MaxErrPages
    /\ errPages' = errPages + 1
    /\ lastPage' = [status |-> "error", err |-> err, len |-> 0]
    /\ UNCHANGED <<out, okPages>>

\* the call panics: nothing is returned and nothing is changed
PagePanic ==
    /\ lastPage' = [status |-> "panic", err |-> "", len |-> 0]
    /\ UNCHANGED <<out, okPages, errPages>>

PageOK(list) ==
    /\ okPages' = okPages + 1
    /\ out' = out \o list
    /\ lastPage' = [status |-> "ok", err |-> "", len |-> Len(list)]
    /\ UNCHANGED errPages

\* mutant: Page on a DONE paginator succeeds with an empty page
PageAfterDoneEmpty == PageOK(<<>>)
\* Page on a DONE paginator: the error, before anything else
PageAfterDone == PageError("all pages already read")

\* mutant: the cursor fields are written before the error is looked at
ThreadsAdvanceAlways(p, r) ==
    [p EXCEPT !.done = ThreadsDone(Len(r.list)), !.afterID = NextAfterID(@, r.list)]
\* what Page does to the paginator with the fetcher's result: nothing on an
\* error, else the DONE flag and the cursor are set from the page
ThreadsAdvance(p, r) ==
    IF r.err # "" THEN p
    ELSE [p EXCEPT !.done = ThreadsDone(Len(r.list)), !.afterID = NextAfterID(@, r.list)]

ThreadsPage ==
    /\ lastCall' = Called("ThreadsPaginator.Page", tp.channelID)
    /\ IF tp.done
       THEN /\ PageAfterDone
            /\ UNCHANGED <<tp, fetches, lastReq, shortSeen>>
       ELSE \E req \in {ThreadsRequest(tp.channelID, tp.afterID)} :
            \E body \in {ServeThreads(req)} :
            \E failure \in {"none"} \cup FetchFailures("getChannelThreadsPage") :
            \E r \in {getChannelThreadsPage(tp.channelID, failure, body)} :
            \E l \in {Len(r.list)} :
              /\ IF tp.channelID = 0
                 THEN UNCHANGED <<fetches, lastReq>>
                 ELSE fetches' = fetches + 1 /\ lastReq' = req
              /\ IF r.err # ""
                 THEN /\ PageError(r.err)
                      /\ UNCHANGED shortSeen
                 ELSE /\ PageOK(r.list)
                      /\ shortSeen' = IF l < maxThreadsPerPage
                                      THEN shortSeen \cup {"threads"} ELSE shortSeen
              /\ tp' = ThreadsAdvance(tp, r)
    /\ UNCHANGED <<cp, srv, lastNext, cp0, built>>
    /\ UNCHANGED <<engineVars, dumpVars>>

ChannelIDs == {0, 1234}
IdSteps == {1, 3}

InitThreads ==
    /\ EngineIdle
    /\ \E c \in ChannelIDs : tp = NewThreadsPaginator(c)
    /\ cp = ExactCommentsPaginator(0)
    /\ \E k \in Counts(maxThreadsPerPage), step \in IdSteps :
         srv = [threads |-> [i \in 1..k |-> Thread(step * i)], comments |-> <<>>,
                n |-> k, missing |-> {}, honest |-> TRUE]
    /\ out = <<>>
    /\ okPages = 0
    /\ errPages = 0
    /\ fetches = 0
    /\ lastReq = NoReq
    /\ lastPage = NoPage
    /\ lastNext = "none"
    /\ lastCall = NoCall
    /\ shortSeen = {}
    /\ cp0 = cp
    /\ built = Made("CommentsPaginator", 0)
    /\ DumpIdle

NextThreads ==
    \/ ThreadsNext
    \/ ThreadsPage

SpecThreads == InitThreads /\ [][NextThreads]_vars

(***************************************************************************)
(* Comments                                                                *)
(***************************************************************************)

\* mutant: every time but the epoch itself is converted to uint64
NewCommentsPaginatorAnyTime(threadID, sinceUnix) ==
    [threadID |-> threadID, nextIndex |-> 0, done |-> FALSE,
     nextSinceTs |-> IF sinceUnix # 0 THEN sinceUnix % (2 ^ 16) ELSE 0]
\* NewCommentsPaginator: since.Unix() at or below 0 leaves nextSinceTs at 0
NewCommentsPaginator(threadID, sinceUnix) ==
    [threadID |-> threadID, nextIndex |-> 0, done |-> FALSE,
     nextSinceTs |-> IF sinceUnix > 0 THEN sinceUnix ELSE 0]

CommentsRequest(threadID, fromIndex) ==
    [NoReq EXCEPT !.api = "comments/get index", !.id = threadID,
                  !.limit = maxCommentsPerPage,
                  !.from_obj_index = fromIndex,
                  !.to_obj_index = fromIndex + maxCommentsPerPage - 1]

NewCommentsRequest(threadID, sinceTimestamp) ==
    [NoReq EXCEPT !.api = "comments/get since", !.id = threadID,
                  !.limit = maxCommentsPerPage,
                  !.newer_than_ts = sinceTimestamp]

\* the server: [from_obj_index, to_obj_index][:limit], or the comments
\* posted at or after newer_than_ts, at most limit of them
ServeComments(req) ==
    LET InWindow(c) ==
            IF req.api = "comments/get index"
            THEN c.OrderIndex >= req.from_obj_index /\ c.OrderIndex <= req.to_obj_index
            ELSE c.TsPosted >= req.newer_than_ts
        all == SelectSeq(srv.comments, InWindow)
    IN  SubSeq(all, 1, IF Len(all) < req.limit THEN Len(all) ELSE req.limit)

\* mutant: the sanity check is left out
NoGapsUnchecked(list) == TRUE
\* the sanity check of getThreadCommentsPage: every record after the first
\* has order index offset + i
NoGaps(list) ==
    \A i \in 2..Len(list) : list[i].OrderIndex = list[1].OrderIndex + (i - 1)

\* getThreadCommentsPage, after the request is built and answered; a
\* negative fromIndex panics before anything else is looked at
getThreadCommentsPage(threadID, fromIndex, failure, body) ==
    IF fromIndex < 0 THEN Failed("panic")
    ELSE IF threadID = 0 THEN Failed("invalid thread ID")
    ELSE IF failure # "none" THEN Failed(failure)
    ELSE IF ~SliceIsSorted([i \in 1..Len(body) |-> body[i].OrderIndex])
         THEN Failed("not sorted")
    ELSE IF ~NoGaps(body) THEN Failed("ordering issue")
    ELSE Fetched(body)

\* mutant: the thread id is not looked at
getNewThreadCommentsPageAnyID(threadID, failure, body) ==
    IF failure # "none" THEN Failed(failure) ELSE Fetched(body)
\* getNewThreadCommentsPage, after the request is built and answered
getNewThreadCommentsPage(threadID, failure, body) ==
    IF threadID = 0 THEN Failed("invalid thread ID")
    ELSE IF failure # "none" THEN Failed(failure)
    ELSE Fetched(body)

\* uint64 arithmetic, scaled to 16 bits: the model checker's integers have 32
Uint64Modulus == 2 ^ 16
MaxUint64 == Uint64Modulus - 1

\* mutant: the boundary is the largest timestamp itself
NextSinceTsSame(maxTs) == maxTs
\* tp.nextSinceTs = maxTs + 1, on uint64
NextSinceTs(maxTs) == (maxTs + 1) % Uint64Modulus

\* a page of len comments with order indices first, first + 1, ..., the
\* first one posted at ts and the others a second earlier; at position
\* defectAt (0 for none) the index is shifted once more by shift
RunOfComments(first, len, ts, defectAt, shift) ==
    [i \in 1..len |->
        Comment(first + (i - 1) + (IF defectAt # 0 /\ i >= defectAt THEN shift ELSE 0),
                IF i = 1 \/ ts = 0 THEN ts ELSE ts - 1)]

\* page lengths an unconstrained server answers with
AnyLens == {0, 1, maxCommentsPerPage - 1, maxCommentsPerPage}

\* what a server that is not bound to the API contract may answer to a
\* comments request: to an index-window request, runs that start at, after
\* or far before the index asked for, whole or with a gap before the last
\* record; to a newer_than_ts request, runs posted at any time, the
\* largest uint64 included
AnyCommentPages(req) ==
    IF req.api = "comments/get index"
    THEN {RunOfComments(first, len, 1, defectAt, 1) :
            first \in {req.from_obj_index, req.from_obj_index + 1,
                       0 - (maxCommentsPerPage + 1)},
            len \in AnyLens,
            defectAt \in {0, maxCommentsPerPage - 1}}
    ELSE {RunOfComments(0, len, ts, 0, 0) :
            len \in AnyLens,
            ts \in {0, req.newer_than_ts, MaxUint64 - 1, MaxUint64}}

\* the answers to a request: the one answer of a server that keeps to the
\* contract, any of the answers of one that does not
Responses(req) ==
    IF srv.honest THEN {ServeComments(req)} ELSE AnyCommentPages(req)

Larger(a, b) == IF b > a THEN b ELSE a

RECURSIVE MaxTsIn(_, _, _)
\* the loop over the page that finds the largest TsPosted, starting from
\* maxTs = 0 (halving the range keeps the evaluation shallow)
MaxTsIn(list, lo, hi) ==
    IF lo > hi THEN 0
    ELSE IF lo = hi THEN Larger(0, list[lo].TsPosted)
    ELSE Larger(MaxTsIn(list, lo, (lo + hi) \div 2),
                MaxTsIn(list, (lo + hi) \div 2 + 1, hi))

\* mutant: a full page ends the pagination too
CommentsDoneOnFull(len) == len <= maxCommentsPerPage
\* tp.done = len(comments) < maxCommentsPerPage
CommentsDone(len) == len < maxCommentsPerPage

CommentsNext ==
    /\ lastNext' = NextValue(cp.done)
    /\ lastCall' = Called("CommentsPaginator.Next", cp.threadID)
    /\ UNCHANGED <<tp, cp, srv, out, okPages, errPages, fetches, lastReq, lastPage, shortSeen,
                   cp0, built>>
    /\ UNCHANGED <<engineVars, dumpVars>>

CommentsPage ==
    /\ lastCall' = Called("CommentsPaginator.Page", cp.threadID)
    /\ srv.honest \/ okPages < MaxAnyPages
    /\ IF cp.done
       THEN /\ PageAfterDone
            /\ UNCHANGED <<cp, fetches, lastReq, shortSeen>>
       ELSE \E loose \in {cp.nextSinceTs # 0} :
            \E req \in {IF loose THEN NewCommentsRequest(cp.threadID, cp.nextSinceTs)
                                 ELSE CommentsRequest(cp.threadID, cp.nextIndex)} :
            \E body \in Responses(req) :
            \E failure \in {"none"} \cup FetchFailures(IF loose THEN "getNewThreadCommentsPage"
                                                               ELSE "getThreadCommentsPage") :
            \E r \in {IF loose THEN getNewThreadCommentsPage(cp.threadID, failure, body)
                                ELSE getThreadCommentsPage(cp.threadID, cp.nextIndex,
                                                           failure, body)} :
            \E l \in {Len(r.list)} :
            \E maxTs \in {IF loose THEN MaxTsIn(r.list, 1, l) ELSE 0} :
              /\ IF cp.threadID = 0 \/ r.err = "panic"
                 THEN UNCHANGED <<fetches, lastReq>>
                 ELSE fetches' = fetches + 1 /\ lastReq' = req
              /\ IF r.err = "panic"
                 THEN /\ PagePanic
                      /\ UNCHANGED <<cp, shortSeen>>
                 ELSE IF r.err # ""
                 THEN /\ PageError(r.err)
                      /\ UNCHANGED <<cp, shortSeen>>
                 ELSE /\ PageOK(r.list)
                      /\ shortSeen' = IF l < maxCommentsPerPage
                                      THEN shortSeen \cup {"comments"} ELSE shortSeen
                      /\ cp' = [cp EXCEPT
                                  !.nextSinceTs = IF loose /\ l # 0 /\ maxTs # 0
                                                  THEN NextSinceTs(maxTs) ELSE @,
                                  !.done = CommentsDone(l),
                                  !.nextIndex = IF l # 0 THEN r.list[l].OrderIndex + 1
                                                ELSE @]
    /\ UNCHANGED <<tp, srv, lastNext, cp0, built>>
    /\ UNCHANGED <<engineVars, dumpVars>>

ThreadIDs == {0, 3456}
\* since.Unix() of the time given to NewCommentsPaginator
SinceTimes == {0 - 5, 0, 1}

\* the comments of a thread of k comments, order indices 0..k-1 less the
\* missing ones (an index below the largest one); comment i was posted at second i + 1
ThreadComments(k, missing) ==
    LET Present(c) == c.OrderIndex \notin missing
    IN  SelectSeq([i \in 1..k |-> Comment(i - 1, i)], Present)

\* a comments paginator against the server that keeps to the API contract:
\* made by CommentsPaginator, or by NewCommentsPaginator with a time after
\* the epoch
InitComments ==
    /\ EngineIdle
    /\ tp = NewThreadsPaginator(0)
    /\ \E t \in ThreadIDs :
         \/ cp = ExactCommentsPaginator(t) /\ built = Made("CommentsPaginator", 0)
         \/ \E since \in {u \in SinceTimes : u > 0} :
              cp = NewCommentsPaginator(t, since) /\ built = Made("NewCommentsPaginator", since)
    /\ \E k \in Counts(maxCommentsPerPage) :
         \E missing \in {{}} \cup {{g} : g \in {c \in Near(maxCommentsPerPage, MaxGapSlack) : c < k - 1}} :
           srv = [threads |-> <<>>, comments |-> ThreadComments(k, missing),
                  n |-> k, missing |-> missing, honest |-> TRUE]
    /\ out = <<>>
    /\ okPages = 0
    /\ errPages = 0
    /\ fetches = 0
    /\ lastReq = NoReq
    /\ lastPage = NoPage
    /\ lastNext = "none"
    /\ lastCall = NoCall
    /\ shortSeen = {}
    /\ cp0 = cp
    /\ DumpIdle

NextComments ==
    \/ CommentsNext
    \/ CommentsPage

SpecComments == InitComments /\ [][NextComments]_vars

\* a comments paginator, of either mode, against a server that is not
\* bound to the API contract
InitCommentsAny ==
    /\ EngineIdle
    /\ tp = NewThreadsPaginator(0)
    /\ \E t \in ThreadIDs :
         \/ cp = ExactCommentsPaginator(t) /\ built = Made("CommentsPaginator", 0)
         \/ \E since \in SinceTimes :
              cp = NewCommentsPaginator(t, since) /\ built = Made("NewCommentsPaginator", since)
    /\ srv = [NoServer EXCEPT !.honest = FALSE]
    /\ out = <<>>
    /\ okPages = 0
    /\ errPages = 0
    /\ fetches = 0
    /\ lastReq = NoReq
    /\ lastPage = NoPage
    /\ lastNext = "none"
    /\ lastCall = NoCall
    /\ shortSeen = {}
    /\ cp0 = cp
    /\ DumpIdle

SpecCommentsAny == InitCommentsAny /\ [][NextComments]_vars

\* getThreadCommentsPage on its own, on any decoded page: the server
\* answers the index-window request with the records it holds, in the order
\* it holds them
MaxPageLen == 3
MaxIndex == 3
DecodedPages(maxLen) ==
    UNION {[1..len -> {Comment(i, 1) : i \in (0 - 1)..MaxIndex}] : len \in 0..maxLen}

InitFetch ==
    /\ EngineIdle
    /\ tp = NewThreadsPaginator(0)
    /\ \E t \in ThreadIDs : cp = ExactCommentsPaginator(t)
    /\ \E page \in DecodedPages(MaxPageLen) :
         srv = [NoServer EXCEPT !.comments = page, !.n = Len(page), !.honest = FALSE]
    /\ out = <<>>
    /\ okPages = 0
    /\ errPages = 0
    /\ fetches = 0
    /\ lastReq = NoReq
    /\ lastPage = NoPage
    /\ lastNext = "none"
    /\ lastCall = NoCall
    /\ shortSeen = {}
    /\ cp0 = cp
    /\ built = Made("CommentsPaginator", 0)
    /\ DumpIdle

Fetch ==
    \E r \in {getThreadCommentsPage(cp.threadID, cp.nextIndex, "none", srv.comments)} :
      /\ lastCall' = Called("Client.getThreadCommentsPage", cp.threadID)
      /\ IF cp.threadID = 0
         THEN UNCHANGED <<fetches, lastReq>>
         ELSE /\ fetches < MaxFetches
              /\ fetches' = fetches + 1
              /\ lastReq' = CommentsRequest(cp.threadID, cp.nextIndex)
      /\ lastPage' = IF r.err # ""
                     THEN [status |-> "error", err |-> r.err, len |-> 0]
                     ELSE [status |-> "ok", err |-> "", len |-> Len(r.list)]
      /\ out' = r.list
      /\ UNCHANGED <<tp, cp, srv, okPages, errPages, lastNext, shortSeen, cp0, built>>
      /\ UNCHANGED <<engineVars, dumpVars>>

SpecFetch == InitFetch /\ [][Fetch]_vars

\* getChannelThreadsPage on its own, on any decoded page and from any
\* cursor: the server answers with the records it holds, in the order it
\* holds them
DecodedThreads(maxLen) ==
    UNION {[1..len -> {Thread(id) : id \in 0..MaxIndex}] : len \in 0..maxLen}
\* cursors: the beginning, and ids a page ended with
Cursors == {0, 1, 7}

InitFetchThreads ==
    /\ EngineIdle
    /\ \E c \in ChannelIDs, afterID \in Cursors :
         tp = [NewThreadsPaginator(c) EXCEPT !.afterID = afterID]
    /\ cp = ExactCommentsPaginator(0)
    /\ \E page \in DecodedThreads(MaxPageLen) :
         srv = [NoServer EXCEPT !.threads = page, !.n = Len(page), !.honest = FALSE]
    /\ out = <<>>
    /\ okPages = 0
    /\ errPages = 0
    /\ fetches = 0
    /\ lastReq = NoReq
    /\ lastPage = NoPage
    /\ lastNext = "none"
    /\ lastCall = NoCall
    /\ shortSeen = {}
    /\ cp0 = cp
    /\ built = Made("CommentsPaginator", 0)
    /\ DumpIdle

FetchThreads ==
    \E r \in {getChannelThreadsPage(tp.channelID, "none", srv.threads)} :
      /\ lastCall' = Called("Client.getChannelThreadsPage", tp.channelID)
      /\ IF tp.channelID = 0
         THEN UNCHANGED <<fetches, lastReq>>
         ELSE /\ fetches < MaxFetches
              /\ fetches' = fetches + 1
              /\ lastReq' = ThreadsRequest(tp.channelID, tp.afterID)
      /\ lastPage' = IF r.err # ""
                     THEN [status |-> "error", err |-> r.err, len |-> 0]
                     ELSE [status |-> "ok", err |-> "", len |-> Len(r.list)]
      /\ out' = r.list
      /\ UNCHANGED <<tp, cp, srv, okPages, errPages, lastNext, shortSeen, cp0, built>>
      /\ UNCHANGED <<engineVars, dumpVars>>

SpecFetchThreads == InitFetchThreads /\ [][FetchThreads]_vars

\* a fresh paginator of either kind against a server that is not bound to
\* the API contract: pages out of order and with gaps are among the answers
InitPagersAny ==
    \/ InitFetchThreads /\ tp.afterID = 0
    \/ InitCommentsAny

\* the caller drives the paginator it made for a channel or a thread
NextPagers ==
    \/ tp.channelID # 0 /\ ThreadsNext
    \/ tp.channelID # 0 /\ ThreadsPage
    \/ cp.threadID # 0 /\ CommentsNext
    \/ cp.threadID # 0 /\ CommentsPage

SpecPagersAny == InitPagersAny /\ [][NextPagers]_vars

(***************************************************************************)
(* The client as a whole                                                   *)
(***************************************************************************)

WorkspaceIDs == {0, 77}
\* numbers of channels a workspace may have
ChannelCounts == {0, 2}

\* what Channels returns once its request is built: an error of
\* doRequestWithRetries or of the decoder, or the channels decoded
ChannelsOutcomes ==
    {[status |-> "error", err |-> failure, len |-> 0] : failure \in FetchFailures("Channels")}
        \cup {[status |-> "ok", err |-> "", len |-> count] : count \in ChannelCounts}

\* Channels: a zero workspace id is refused before a request is built
Channels ==
    \E workspaceID \in WorkspaceIDs :
      /\ lastCall' = Called("Client.Channels", workspaceID)
      /\ IF workspaceID = 0
         THEN /\ lastPage' = [status |-> "error", err |-> "invalid workspace id", len |-> 0]
              /\ UNCHANGED <<fetches, lastReq>>
         ELSE /\ fetches < MaxFetches
              /\ fetches' = fetches + 1
              /\ lastReq' = [NoReq EXCEPT !.api = "channels/get", !.id = workspaceID]
              /\ lastPage' \in ChannelsOutcomes
      /\ UNCHANGED <<tp, cp, srv, out, okPages, errPages, lastNext, shortSeen, cp0, built>>
      /\ UNCHANGED <<engineVars, dumpVars>>

\* a client with a threads paginator and a comments paginator, one of them
\* on the zero id, and the calls a program can make on them in any order
InitClient ==
    /\ \/ InitThreads
       \/ InitComments
    /\ srv.missing = {}
    /\ srv.n \in {0, 1} \cup {pageSize + d : pageSize \in {maxThreadsPerPage, maxCommentsPerPage},
                                            d \in {0 - 1, 0, 1}}

NextClient ==
    \/ Channels
    \/ ThreadsNext
    \/ ThreadsPage
    \/ CommentsNext
    \/ CommentsPage

SpecClient == InitClient /\ [][NextClient]_vars

(***************************************************************************)
(* dump-twist-thread: clearMentions                                        *)
(***************************************************************************)

\* the literal "(twist-mention://" of mentionRe
MentionPrefix == <<"(", "t", "w", "i", "s", "t", "-", "m", "e", "n", "t", "i", "o", "n", ":", "/", "/">>
Digits == {"0", "1", "2", "3", "4", "5", "6", "7", "8", "9"}

Least(S) == CHOOSE x \in S : \A y \in S : x <= y

\* [^\]]+ followed by \]: the run of the name ends at the first "]" after
\* position i (0 if there is none)
NameEnd(txt, i) ==
    LET closers == {j \in (i + 1)..Len(txt) : txt[j] = "]"}
    IN  IF closers = {} THEN 0 ELSE Least(closers)

\* \d+ from position d: the first position at or after d that holds no digit
DigitsEnd(txt, d) ==
    Least({k \in d..(Len(txt) + 1) : k > Len(txt) \/ txt[k] \notin Digits})

NoMatch == [ok |-> FALSE, name |-> <<>>, next |-> 0]

\* mentionRe matched at position i: \[(?<name>[^\]]+)\]\(twist-mention://\d+\)
MatchAt(txt, i) ==
    IF txt[i] # "[" THEN NoMatch
    ELSE LET j == NameEnd(txt, i)
             d == j + Len(MentionPrefix) + 1
         IN  IF j = 0 \/ j = i + 1 THEN NoMatch
             ELSE IF d - 1 > Len(txt) THEN NoMatch
             ELSE IF SubSeq(txt, j + 1, d - 1) # MentionPrefix THEN NoMatch
             ELSE LET k == DigitsEnd(txt, d)
                  IN  IF k = d \/ k > Len(txt) THEN NoMatch
                      ELSE IF txt[k] # ")" THEN NoMatch
                      ELSE [ok |-> TRUE, name |-> SubSeq(txt, i + 1, j - 1),
                            next |-> k + 1]

\* mutant: the template names no group of the expression
ExpandNothing(m) == <<>>
\* the template "${name}" expanded for a match
Expand(m) == m.name

RECURSIVE ReplaceAllFrom(_, _)
\* ReplaceAllString: the leftmost match, then the next one after its end
ReplaceAllFrom(txt, i) ==
    IF i > Len(txt) THEN <<>>
    ELSE LET m == MatchAt(txt, i)
         IN  IF m.ok THEN Expand(m) \o ReplaceAllFrom(txt, m.next)
             ELSE <<txt[i]>> \o ReplaceAllFrom(txt, i + 1)

clearMentions(txt) == ReplaceAllFrom(txt, 1)

\* the text of Test_clearMentions and the result it wants
TestText ==
    <<"H", "e", "l", "l", "o", " ", "[", "T", "h", "o", "m", "a", "s", "]",
      "(", "t", "w", "i", "s", "t", "-", "m", "e", "n", "t", "i", "o", "n",
      ":", "/", "/", "1", "2", "3", ")", ",", " ", "h", "o", "w", " ", "a",
      "r", "e", " ", "y", "o", "u", "?">>
TestWant ==
    <<"H", "e", "l", "l", "o", " ", "T", "h", "o", "m", "a", "s", ",", " ",
      "h", "o", "w", " ", "a", "r", "e", " ", "y", "o", "u", "?">>

\* texts put together from the pieces that matter to mentionRe
MaxPieces == 6
Pieces == {<<"[">>, <<"]">>, MentionPrefix, <<"7">>, <<")">>, <<"a">>}

RECURSIVE Flatten(_)
Flatten(ps) == IF ps = <<>> THEN <<>> ELSE Head(ps) \o Flatten(Tail(ps))

Mention(name, digits) == <<"[">> \o name \o <<"]">> \o MentionPrefix \o digits \o <<")">>

\* longer texts: the one of the test, two mentions in one text, a mention
\* after an unmatched "[", and a mention followed by the tail of another
LongTexts ==
    {TestText,
     Mention(<<"a">>, <<"1">>) \o <<"b">> \o Mention(<<"c", "d">>, <<"2", "3">>) \o <<"e">>,
     <<"[", "x", " ">> \o Mention(<<"B", "o", "b">>, <<"5">>),
     Mention(<<"a">>, <<"1">>) \o <<"]">> \o MentionPrefix \o <<"2", ")">>}

\* the texts of up to maxPieces pieces, and the longer ones
Texts(maxPieces) ==
    {Flatten(ps) : ps \in UNION {[1..len -> Pieces] : len \in 0..maxPieces}} \cup LongTexts

InitMentions ==
    /\ EngineIdle
    /\ tp = NewThreadsPaginator(0)
    /\ cp = ExactCommentsPaginator(0)
    /\ srv = NoServer
    /\ out = <<>>
    /\ okPages = 0
    /\ errPages = 0
    /\ fetches = 0
    /\ lastReq = NoReq
    /\ lastPage = NoPage
    /\ lastNext = "none"
    /\ lastCall = NoCall
    /\ shortSeen = {}
    /\ cp0 = ExactCommentsPaginator(0)
    /\ built = Made("CommentsPaginator", 0)
    /\ text \in Texts(MaxPieces)
    /\ cleared = NotCleared

\* clearMentions(thread.Text), clearMentions(c.Text)
Clear ==
    /\ ~cleared.called
    /\ cleared' = [called |-> TRUE, got |-> clearMentions(text)]
    /\ UNCHANGED <<text, engineVars, pagerVars>>

SpecMentions == InitMentions /\ [][Clear]_vars

(***************************************************************************)
(* Properties of the retry engine                                          *)
(***************************************************************************)

\* a retryable response, as the specification words it: 429 or any 5xx
TransientStatus(h) ==
    h.kind = "resp" /\ (h.status = 429 \/ (h.status >= 500 /\ h.status <= 599))
AllTransient(k) == \A i \in 1..k : TransientStatus(hist[i])
LastIsJSON200 ==
    /\ hist # <<>>
    /\ hist[Len(hist)] = GotResponse(200)
    /\ lastResp = [status |-> 200, ct |-> "application/json"]
Rewindable == reqBody.kind \in {"nil", "seeker"}
WrapsCancellation(r) ==
    r.kind = "ctx" \/ (r.kind \in {"err", "givingUp", "cannotRewind"} /\ r.cause.kind = "ctx")

\* C1: with no request body and a context that is never cancelled, k
\* retryable responses (k in 0..9) do not end the call, and a following
\* 200 application/json ends it with success after exactly k+1 attempts.
C1_SuccessAfterTransientFailures ==
    (reqBody.kind = "nil" /\ ~ctxDone) =>
        /\ (Len(hist) <= 9 /\ AllTransient(Len(hist))) => pc # "returned"
        /\ (LastIsJSON200 /\ Len(hist) <= 10 /\ AllTransient(Len(hist) - 1)) =>
               /\ pc = "returned"
               /\ result.kind = "body"
               /\ sent = Len(hist)
C1_Witness ==
    /\ reqBody.kind = "nil" /\ ~ctxDone
    /\ LastIsJSON200 /\ Len(hist) = 10 /\ AllTransient(9)
    /\ pc = "returned" /\ result.kind = "body" /\ sent = 10

\* C2: at most 10 attempts are made for one request, and when 10 attempts
\* ended in a retryable failure the call returns the "giving up" error
\* wrapping the failure of the 10th attempt.
C2_AtMostTenAttempts ==
    /\ sent <= 10
    /\ Len(hist) <= 10
    /\ (Len(hist) = 10 /\ AllTransient(10)) =>
          /\ pc \in {"loop", "returned"}
          /\ pc = "returned" =>
                result = Returned("givingUp", StatusErr(hist[10].status, 10))
C2_Witness ==
    /\ Len(hist) = 10 /\ AllTransient(10) /\ sent = 10
    /\ hist[10].status # hist[1].status
    /\ pc = "returned" /\ result.kind = "givingUp"

\* C3 as stated: a network-level error on an attempt is retried, never
\* returned to the caller, while attempts remain, the context is not
\* cancelled and the body can be sent again.
C3_Original_NetworkErrorRetried ==
    ~ /\ pc = "returned"
      /\ result.kind = "err"
      /\ result.cause.kind = "net"
      /\ result.cause.attempt < 10
      /\ ~ctxDone
      /\ Rewindable
\* C3 as amended: a network-level error on an attempt is fatal: the call
\* returns that error right after the attempt and no further attempt is made.
C3_NetworkErrorIsFatal ==
    \A i \in 1..Len(hist) :
        hist[i] = GotNetErr =>
            /\ i = Len(hist)
            /\ pc = "returned"
            /\ result = Returned("err", NetErr(i))
            /\ sent = i
C3_Witness ==
    /\ Len(hist) = 3 /\ hist[3] = GotNetErr /\ AllTransient(2)
    /\ pc = "returned" /\ ~ctxDone /\ Rewindable

\* C4 as stated: the threads request survives transient failures: while
\* fewer than 10 responses, all of them 429/5xx, have been received the
\* call has not failed, and a following valid page is returned.
C4_Original_ThreadsPageSurvivesTransient ==
    (caller = "getChannelThreadsPage" /\ ~ctxDone) =>
        /\ (Len(hist) <= 9 /\ AllTransient(Len(hist))) => pc # "returned"
        /\ (Len(hist) >= 2 /\ AllTransient(Len(hist) - 1)) => rewinds = Len(hist) - 1

\* C5: with a non-nil body that cannot be rewound, a retryable failure of
\* the first attempt ends the call with the "cannot rewind" error: one
\* attempt in all, no wait, no ticker.
C5_NoRetryWithoutRewind ==
    (reqBody.kind = "plain" /\ hist # <<>> /\ TransientStatus(hist[1])) =>
        /\ Len(hist) = 1
        /\ sent = 1
        /\ waits = 0
        /\ ticker = "nil"
        /\ pc \in {"loop", "returned"}
        /\ pc = "returned" =>
              result = Returned("cannotRewind", StatusErr(hist[1].status, 1))
C5_Witness ==
    /\ reqBody.kind = "plain" /\ hist # <<>> /\ TransientStatus(hist[1])
    /\ pc = "returned" /\ result.kind = "cannotRewind"

\* a response that is neither success nor retryable, in the words of the
\* specification
FatalResponse(i) ==
    /\ hist[i].kind = "resp"
    /\ \/ hist[i].status \notin {200, 429} /\ ~TransientStatus(hist[i])
       \/ hist[i].status = 200 /\ i = Len(hist) /\ lastResp.ct # "application/json"

\* C6: a fatal response (200 with another Content-Type, or a status that is
\* not 200, 429 or 5xx) ends the call with an error right after the
\* attempt that received it, however many attempts came before.
C6_FatalResponsesNotRetried ==
    \A i \in 1..Len(hist) :
        FatalResponse(i) =>
            /\ i = Len(hist)
            /\ pc = "returned"
            /\ result.kind = "err"
            /\ result.cause.attempt = i
            /\ sent = i
C6_Witness ==
    /\ Len(hist) = 10 /\ AllTransient(9) /\ FatalResponse(10)
    /\ hist[10].status = 404
    /\ pc = "returned"

\* C7: a cancellation observed while waiting between retries or while an
\* attempt is blocked in the client ends the call, in that step, with the
\* context's error (bare or wrapped); a wait with the context cancelled and
\* no tick pending can only end that way, and sends nothing.
C7_CancellationObserved ==
    /\ [](cancelSeen # "no" =>
            /\ pc = "returned"
            /\ WrapsCancellation(result)
            /\ cancelSeen = "wait" => result.kind = "ctx")
    /\ [][(pc = "wait" /\ ctxDone /\ ticker # "ticked" /\ pc' # pc) =>
            (pc' = "returned" /\ result'.kind = "ctx" /\ sent' = sent)]_vars
    /\ [][(pc = "inflight" /\ cancelSeen' = "inflight") =>
            (pc' = "returned" /\ result' = Returned("err", DoCtxErr(sent)))]_vars
    /\ [][cancelSeen # "no" => (sent' = sent /\ pc' = "returned")]_vars
C7_Witness ==
    /\ cancelSeen = "wait"
    /\ pc = "returned"
    /\ sent >= 2

(***************************************************************************)
(* Properties of the paginators                                            *)
(***************************************************************************)

\* a CommentsPaginator in exact mode on a real thread
ExactOnThread == cp.threadID # 0 /\ cp.nextSinceTs = 0

\* C8: exact mode against a server holding comments 0..N-1 and serving
\* every index window in ascending order: the pages returned so far are
\* the first comments in order, each once; every page before the last is
\* full; after at most N div 500 + 1 successful pages the paginator is
\* done, and then the pages together are exactly the comments 0..N-1.
C8_ExactDrainIsComplete ==
    (ExactOnThread /\ srv.missing = {}) =>
        /\ Len(out) <= srv.n
        /\ \A i \in 1..Len(out) : out[i].OrderIndex = i - 1
        /\ okPages <= srv.n \div 500 + 1
        /\ ~cp.done => Len(out) = 500 * okPages
        /\ cp.done => (Len(out) = srv.n /\ out = srv.comments
                       /\ okPages = srv.n \div 500 + 1)
C8_Witness ==
    /\ ExactOnThread /\ srv.missing = {}
    /\ srv.n = 1000
    /\ cp.done /\ okPages = 3 /\ Len(out) = 1000

\* C9 as stated: when an order index below the largest one is missing on
\* the server, an exact-mode paginator whose Page calls all succeeded is
\* never done.
C9_Original_EveryGapDetected ==
    (ExactOnThread /\ srv.missing # {} /\ errPages = 0) => ~cp.done

\* C10 as stated: a drained ThreadsPaginator has made exactly ceil(N/100)
\* successful Page calls.
C10_Original_CeilPages ==
    (tp.channelID # 0 /\ tp.done) => okPages = (srv.n + 99) \div 100
\* C10 as amended: a drained ThreadsPaginator has made exactly
\* N div 100 + 1 successful Page calls (one more than ceil(N/100) when N is
\* a multiple of 100, N = 0 included: the last page is then empty), and it
\* is not done before that.
C10_FloorPlusOnePages ==
    tp.channelID # 0 =>
        /\ tp.done => okPages = srv.n \div 100 + 1
        /\ ~tp.done => (okPages <= srv.n \div 100 /\ Len(out) = 100 * okPages)
C10_Witness ==
    /\ tp.channelID # 0 /\ tp.done
    /\ srv.n = 200 /\ okPages = 3 /\ Len(out) = 200 /\ lastPage.len = 0

\* C11: draining a ThreadsPaginator over a channel of N threads with distinct
\* positive ids, served correctly (ids above after_id, ascending, at most 100
\* a page), delivers the threads in ascending id order with none repeated and
\* none left out: what was delivered is always a prefix of the channel's
\* threads, every page before the last adds 100 of them, and once the
\* paginator is DONE it is all of them.
C11_ThreadsDrainIsComplete ==
    tp.channelID # 0 =>
        /\ Len(out) <= srv.n
        /\ out = SubSeq(srv.threads, 1, Len(out))
        /\ ~tp.done => Len(out) = okPages * maxThreadsPerPage
        /\ tp.done => out = srv.threads

\* three pages were read, the last one short, over ids 3, 6, ...
C11_Witness ==
    /\ tp.channelID # 0
    /\ tp.done
    /\ okPages = 3
    /\ srv.n = 2 * maxThreadsPerPage + 1
    /\ srv.threads[2].Id = 6
    /\ out = srv.threads
(***************************************************************************)
(* Properties of the paginators' state machine                             *)
(***************************************************************************)

NoRequestSent == fetches' = fetches /\ lastReq' = lastReq
PageFailed == lastPage'.status = "error"
IsCall(method) == lastCall'.method = method

C12_Step ==
    /\ tp.done => tp' = tp
    /\ cp.done => cp' = cp
    /\ (tp.done /\ IsCall("ThreadsPaginator.Page")) =>
          PageFailed /\ NoRequestSent /\ out' = out /\ okPages' = okPages
    /\ (cp.done /\ IsCall("CommentsPaginator.Page")) =>
          PageFailed /\ NoRequestSent /\ out' = out /\ okPages' = okPages

\* C12: DONE is absorbing for both paginators, in either comments mode: no
\* call changes a DONE paginator (its flag and cursor stay as they are), and
\* a Page call on a DONE paginator returns an error, never a page, without
\* sending a request.
C12_DoneIsAbsorbing == [][C12_Step]_vars

\* a loose-mode paginator was drained over several requests and Page was
\* called once more
C12_Witness ==
    /\ cp.done
    /\ cp.nextSinceTs # 0
    /\ fetches >= 2
    /\ lastCall.method = "CommentsPaginator.Page"
    /\ lastPage = [status |-> "error", err |-> "all pages already read", len |-> 0]

C16_Step ==
    /\ lastCall' = Called("Client.Channels", 0) => PageFailed /\ NoRequestSent
    /\ lastCall' = Called("ThreadsPaginator.Page", 0) =>
          PageFailed /\ NoRequestSent /\ tp' = tp
    /\ lastCall' = Called("CommentsPaginator.Page", 0) =>
          PageFailed /\ NoRequestSent /\ cp' = cp

\* C16: a zero id is refused before any network activity: Channels on
\* workspace 0, ThreadsPaginator.Page on channel 0 and CommentsPaginator.Page
\* on thread 0, in either mode, return an error without sending a request,
\* and leave the paginator's cursor and DONE flag as they were.
C16_ZeroIdRefused == [][C16_Step]_vars

\* Page on a loose-mode paginator of thread 0 failed, then Channels was
\* called on workspace 0, and no request has been sent
C16_Witness ==
    /\ cp.threadID = 0
    /\ cp.nextSinceTs # 0
    /\ errPages = 1
    /\ fetches = 0
    /\ lastCall = Called("Client.Channels", 0)
    /\ lastPage = [status |-> "error", err |-> "invalid workspace id", len |-> 0]

C17_Step ==
    /\ IsCall("ThreadsPaginator.Next") =>
          /\ tp' = tp /\ NoRequestSent /\ out' = out
          /\ lastNext' = IF "threads" \in shortSeen THEN "false" ELSE "true"
    /\ IsCall("CommentsPaginator.Next") =>
          /\ cp' = cp /\ NoRequestSent /\ out' = out
          /\ lastNext' = IF "comments" \in shortSeen THEN "false" ELSE "true"

\* C17: Next is a pure query tied to Page: it changes no paginator state
\* and sends no request, and it returns false exactly when an earlier Page
\* call succeeded with a page shorter than the limit (100 threads, 500
\* comments); so it is true on a fresh paginator and a failed Page call
\* never makes it false.
C17_NextIsPureQuery == [][C17_Step]_vars

\* Page failed on a fresh paginator after its request was sent, and Next
\* still reports more pages
C17_Witness ==
    /\ lastCall.method = "ThreadsPaginator.Next"
    /\ lastNext = "true"
    /\ errPages = 1
    /\ okPages = 0
    /\ fetches = 1
    /\ lastReq.api = "threads/get"
    /\ tp.channelID # 0
C13_Step ==
    /\ (IsCall("ThreadsPaginator.Page") /\ okPages' = okPages + 1) =>
          /\ ~tp.done
          /\ tp'.done <=> lastPage'.len < maxThreadsPerPage
          /\ lastPage'.len = maxThreadsPerPage =>
                ~tp'.done /\ tp'.afterID = out'[Len(out')].Id
    /\ (IsCall("ThreadsPaginator.Page") /\ fetches' = fetches + 1 /\ okPages > 0) =>
          lastReq'.after_id = out[Len(out)].Id

\* C13: a successful Page call on an ACTIVE threads paginator moves it to
\* DONE exactly when the page has fewer than 100 records; after a page of
\* exactly 100 it stays ACTIVE, its cursor is the id of the last record of
\* the page, and that id is the after_id of the next request.
C13_ThreadsTransitionRule == [][C13_Step]_vars

\* two full pages over ids 3, 6, ...: the second request carried the last
\* id of the first page, and the paginator is still ACTIVE
C13_Witness ==
    /\ okPages = 2
    /\ Len(out) = 2 * maxThreadsPerPage
    /\ lastReq.after_id = 3 * maxThreadsPerPage
    /\ ~tp.done
    /\ tp.afterID = 6 * maxThreadsPerPage
(***************************************************************************)
(* Properties of the comments paginator against any server                 *)
(***************************************************************************)

\* a Page call of the comments paginator that returned a page
CommentsPageOK == IsCall("CommentsPaginator.Page") /\ okPages' = okPages + 1
\* a Page call of the comments paginator that sent a request
CommentsPageSent == IsCall("CommentsPaginator.Page") /\ fetches' = fetches + 1
\* the largest posted timestamp of the page just returned
PageMaxTs == MaxTsIn(out', Len(out) + 1, Len(out'))
FullLoosePage ==
    CommentsPageOK /\ cp.nextSinceTs # 0 /\ lastPage'.len = maxCommentsPerPage
SentBoundary ==
    (CommentsPageSent /\ cp.nextSinceTs # 0) =>
        /\ lastReq'.api = "comments/get since"
        /\ lastReq'.newer_than_ts = cp.nextSinceTs

C14_Original_Step ==
    /\ FullLoosePage => cp'.nextSinceTs = PageMaxTs + 1
    /\ SentBoundary

\* C14 as stated: in loose mode, after a successful full page of 500
\* comments whose largest posted timestamp is T, the newer_than_ts of the
\* next request is T+1, whatever T is.
C14_Original_BoundaryIsMaxPlusOne == [][C14_Original_Step]_vars

C14_Step ==
    /\ FullLoosePage =>
          /\ PageMaxTs \in 1..(MaxUint64 - 1) => cp'.nextSinceTs = PageMaxTs + 1
          /\ PageMaxTs = 0 => cp'.nextSinceTs = cp.nextSinceTs
          /\ PageMaxTs = MaxUint64 => cp'.nextSinceTs = 0
    /\ SentBoundary

\* C14: in loose mode, after a successful full page of 500 comments whose
\* largest posted timestamp is T, the boundary for the next request is T+1
\* when T is at least 1 and below the largest uint64, and that boundary is
\* the newer_than_ts the next loose request carries; when T is 0 the
\* boundary stays as it was, and when T is the largest uint64 it wraps to 0.
C14_BoundaryIsMaxPlusOne == [][C14_Step]_vars

\* two full pages, posted at 1 and then at 2: the second request asked for
\* newer_than_ts 2 and the boundary is now 3
C14_Witness ==
    /\ cp0.nextSinceTs = 1
    /\ okPages = 2
    /\ Len(out) = 2 * maxCommentsPerPage
    /\ lastReq.api = "comments/get since"
    /\ lastReq.newer_than_ts = 2
    /\ cp.nextSinceTs = 3
    /\ ~cp.done

C15_Original_Step ==
    CommentsPageSent =>
        lastReq'.api = IF cp0.nextSinceTs = 0 THEN "comments/get index"
                                              ELSE "comments/get since"

\* C15 as stated: a paginator made by CommentsPaginator sends only
\* index-window requests, and one made by NewCommentsPaginator with a time
\* after the epoch sends only newer_than_ts requests, for every sequence of
\* Page calls and every sequence of server responses.
C15_Original_ModeIsForLife == [][C15_Original_Step]_vars

\* a Page call in loose mode that returned a page with comments in it
NonEmptyLoosePage == CommentsPageOK /\ cp.nextSinceTs # 0 /\ lastPage'.len > 0
C24_Original_Step == NonEmptyLoosePage => cp'.nextSinceTs > PageMaxTs

\* C24 as stated: in loose mode, after any successful non-empty page the
\* boundary for the next request is strictly greater than the posted
\* timestamp of every comment of that page.
C24_Original_BoundaryAboveThePage == [][C24_Original_Step]_vars

\* a call of Page, of either paginator
PageCalled == IsCall("ThreadsPaginator.Page") \/ IsCall("CommentsPaginator.Page")
\* the errors of a Page call that sends no request
RefusedUnsent == {"all pages already read", "invalid channel ID", "invalid thread ID"}
\* the last Page call sent lastReq and returned an error
FailedAfterSending == lastPage.status = "error" /\ lastPage.err \notin RefusedUnsent
C25_Step ==
    /\ (PageCalled /\ PageFailed) => (tp' = tp /\ cp' = cp)
    /\ (PageCalled /\ FailedAfterSending /\ fetches' = fetches + 1) =>
          lastReq' = lastReq

\* C25: a Page call that returns an error leaves the paginator as it was,
\* cursor fields and DONE flag, whatever the error; and the Page call that
\* follows a failed one sends the request the failed one sent.
C25_FailedPageChangesNothing == [][C25_Step]_vars

\* a page of comments was returned and the next Page call failed on the
\* order of the records: the paginator is where the first page left it
C25_Witness ==
    /\ lastCall.method = "CommentsPaginator.Page"
    /\ lastPage = [status |-> "error", err |-> "ordering issue", len |-> 0]
    /\ okPages = 1 /\ errPages = 1
    /\ Len(out) = maxCommentsPerPage
    /\ cp.nextIndex = maxCommentsPerPage /\ ~cp.done
    /\ lastReq.from_obj_index = maxCommentsPerPage

\* C26 as stated: the nextIndex of a comments paginator is non-negative in
\* every reachable state, for every sequence of Page calls and of server
\* responses the fetcher accepts, so no Page call reaches the panic of
\* getThreadCommentsPage on a negative fromIndex.
C26_Original_NextIndexNonNegative ==
    /\ cp.nextIndex >= 0
    /\ lastPage.status # "panic"

\* the paginator was made by NewCommentsPaginator with a time at or before
\* the Unix epoch
MadeAtOrBeforeEpoch == built.by = "NewCommentsPaginator" /\ built.since <= 0

\* C27: a paginator made by NewCommentsPaginator with a time at or before
\* the epoch is the paginator CommentsPaginator makes for the same thread:
\* the same fields at construction, hence the same steps on the same
\* answers; it sends index-window requests only, the first from index 0,
\* and no newer_than_ts boundary is ever kept.
C27_EpochTimeIsExactMode ==
    MadeAtOrBeforeEpoch =>
        /\ cp0 = ExactCommentsPaginator(cp.threadID)
        /\ cp.nextSinceTs = 0
        /\ lastReq.api \in {"none", "comments/get index"}
        /\ fetches = 1 => lastReq.from_obj_index = 0
        /\ lastPage.err = "ordering issue" => lastReq.api = "comments/get index"

\* made with a time five seconds before the epoch: a full page from index 0
\* was returned, and the second request asked for the window from 500, in
\* which the records were found out of sequence
C27_Witness ==
    /\ built = Made("NewCommentsPaginator", 0 - 5)
    /\ okPages = 1 /\ Len(out) = maxCommentsPerPage
    /\ out[1].OrderIndex = 0
    /\ lastReq.api = "comments/get index"
    /\ lastReq.from_obj_index = maxCommentsPerPage
    /\ lastPage = [status |-> "error", err |-> "ordering issue", len |-> 0]

C19_Original_Step ==
    (CommentsPageOK /\ lastReq'.api = "comments/get index" /\ lastPage'.len > 0) =>
        out'[Len(out) + 1].OrderIndex = lastReq'.from_obj_index

\* C19 as stated: in exact mode a non-empty page whose first order index
\* differs from the from_obj_index asked for makes the fetch report an
\* ordering error and Page fail; so a page Page returns starts at the
\* index asked for.
C19_Original_FirstIndexChecked == [][C19_Original_Step]_vars
\* each record's order index is one more than that of the record before it
Consecutive(list) ==
    \A i \in 1..(Len(list) - 1) : list[i + 1].OrderIndex = list[i].OrderIndex + 1
FetchReturned == lastCall.method = "Client.getThreadCommentsPage"

\* C20: a page the exact-mode fetcher returns is the decoded page, and its
\* order indices are first, first+1, first+2, ...: strictly ascending,
\* contiguous, none repeated; a decoded page that is unsorted, or has a gap
\* or a repeat after its first record, yields an error and no records.
C20_ReturnedPageIsContiguous ==
    FetchReturned =>
        /\ lastPage.status = "ok" => (out = srv.comments /\ Consecutive(out))
        /\ ~Consecutive(srv.comments) => (lastPage.status = "error" /\ out = <<>>)

\* a sorted page with a repeated index, 1 1 2, was refused
C20_Witness ==
    /\ FetchReturned
    /\ [i \in 1..Len(srv.comments) |-> srv.comments[i].OrderIndex] = <<1, 1, 2>>
    /\ lastPage = [status |-> "error", err |-> "ordering issue", len |-> 0]
    /\ fetches = 1
(***************************************************************************)
(* Properties of clearMentions                                             *)
(***************************************************************************)

Positions(txt, c) == {i \in 1..Len(txt) : txt[i] = c}

\* txt[i..k] is the markup [name](twist-mention://digits), the name being
\* txt[i+1..j-1]: one character or more, none of them a "]"
IsMention(txt, i, j, k) ==
    /\ i + 1 < j
    /\ \A m \in (i + 1)..(j - 1) : txt[m] # "]"
    /\ j + Len(MentionPrefix) + 1 < k
    /\ SubSeq(txt, j + 1, j + Len(MentionPrefix)) = MentionPrefix
    /\ \A m \in (j + Len(MentionPrefix) + 1)..(k - 1) : txt[m] \in Digits

MentionsIn(txt) ==
    {o \in Positions(txt, "[") \X Positions(txt, "]") \X Positions(txt, ")") :
        IsMention(txt, o[1], o[2], o[3])}

RECURSIVE Stripped(_)
\* the text with its mentions, taken from left to right, replaced by their names
Stripped(txt) ==
    IF MentionsIn(txt) = {} THEN txt
    ELSE LET o == CHOOSE x \in MentionsIn(txt) : \A y \in MentionsIn(txt) : x[1] <= y[1]
         IN  SubSeq(txt, 1, o[1] - 1) \o SubSeq(txt, o[1] + 1, o[2] - 1)
                 \o Stripped(SubSeq(txt, o[3] + 1, Len(txt)))

\* C18: clearMentions replaces every occurrence of the markup
\* [name](twist-mention://digits) by name alone and leaves the rest of the
\* text as it is; for the text of the test, "Hello [Thomas](twist-mention://123),
\* how are you?", it returns "Hello Thomas, how are you?".
C18_MentionsCleared ==
    cleared.called =>
        /\ cleared.got = Stripped(text)
        /\ text = TestText => cleared.got = TestWant

\* the text of the test was cleared
C18_Witness ==
    /\ cleared.called
    /\ text = TestText
    /\ MentionsIn(text) # {}
    /\ cleared.got = TestWant
(***************************************************************************)
(* Properties of the threads fetcher                                       *)
(***************************************************************************)

\* some record has a smaller id than the record before it
HasDescent(list) == \E i \in 1..(Len(list) - 1) : list[i + 1].Id < list[i].Id
ThreadsFetchReturned == lastCall.method = "Client.getChannelThreadsPage"

\* C21: the threads fetcher returns an ordering error and no records
\* whenever the decoded page is not sorted ascending by id; a request from
\* the beginning cursor 0 carries after_id -1, never 0, and a request from
\* any other cursor carries that cursor.
C21_ThreadsOrderAndSentinel ==
    (ThreadsFetchReturned /\ tp.channelID # 0) =>
        /\ HasDescent(srv.threads) =>
              (lastPage = [status |-> "error", err |-> "not sorted", len |-> 0] /\ out = <<>>)
        /\ ~HasDescent(srv.threads) => (lastPage.status = "ok" /\ out = srv.threads)
        /\ lastReq.api = "threads/get"
        /\ lastReq.after_id # 0
        /\ tp.afterID = 0 => lastReq.after_id = 0 - 1
        /\ tp.afterID # 0 => lastReq.after_id = tp.afterID

\* from the beginning cursor, the page 2 1 3 was refused and the request
\* carried after_id -1
C21_Witness ==
    /\ ThreadsFetchReturned
    /\ tp.channelID # 0 /\ tp.afterID = 0
    /\ [i \in 1..Len(srv.threads) |-> srv.threads[i].Id] = <<2, 1, 3>>
    /\ lastPage.status = "error"
    /\ lastReq.after_id = 0 - 1
\* ---- C22

\* the fetcher that called doRequestWithRetries has returned to its caller
FetcherDone == fetcher \in {"ok", "decode", "ordering", "error"}

\* C22: no body is closed twice, and once a fetcher has returned, whatever
\* its way out, every response body it received has been closed exactly
\* once and none is open
C22_BodiesClosedOnce ==
    /\ \A i \in 1..Len(closes) : closes[i] <= 1
    /\ Len(closes) = Len(SelectSeq(hist, LAMBDA h : h.kind = "resp"))
    /\ FetcherDone =>
          /\ respOpen = 0
          /\ \A i \in 1..Len(closes) : closes[i] = 1

\* two retryable answers, then a 200 whose body does not decode: three
\* bodies, each closed once
C22_Witness ==
    /\ fetcher = "decode"
    /\ Len(closes) = 3
    /\ \A i \in 1..3 : closes[i] = 1
    /\ respOpen = 0
    /\ lastResp.status = 200

\* ---- C23

\* the steps of the loop, told by what they count
AttemptStarts == sent' = sent + 1
AttemptEnds == Len(hist') = Len(hist) + 1
WaitCompletes == waits' = waits + 1
BodyRewound == rewinds' = rewinds + 1
\* the rewinds that k retries ask for: one each when the request has a body
RewindsFor(k) == IF reqBody.kind = "nil" THEN 0 ELSE k

\* C23: an attempt starts only when every earlier one has ended, the first
\* with no wait and no rewind behind it, the k-th later one with k rewinds
\* (when there is a body) and k completed waits behind it; each rewind
\* comes before the wait of the same retry, and only one attempt is in
\* flight at a time
C23_Step ==
    /\ AttemptStarts =>
          /\ pc # "inflight" /\ Len(hist) = sent
          /\ waits = sent
          /\ rewinds = RewindsFor(sent)
    /\ AttemptEnds => (pc = "inflight" /\ Len(hist') = sent)
    /\ WaitCompletes =>
          /\ Len(hist) = sent /\ sent = waits + 1
          /\ rewinds = RewindsFor(sent)
    /\ BodyRewound =>
          /\ Len(hist) = sent /\ waits = rewinds /\ sent = rewinds + 1
C23_StepsInOrder == [][C23_Step]_vars

\* the third attempt of a request with a body is in flight: two rewinds
\* and two waits lie behind it
C23_Witness ==
    /\ pc = "inflight"
    /\ sent = 3 /\ Len(hist) = 2
    /\ waits = 2 /\ rewinds = 2
    /\ reqBody.kind # "nil"

====
